---- MODULE Spec2Model ----
(***************************************************************************)
(* The in-memory series of pkg/storage/series.go: MemSeries, its Appender  *)
(* and the Append protocol (validation, chunk roll, tree insertion,        *)
(* positional writes, bookkeeping).  And, of the UI, the useLabelNames     *)
(* hook that requests the label names of a profile type, and the legend    *)
(* of the icicle graph, whose entries set the binary frame filter.         *)
(*                                                                         *)
(* A chunk is modelled by what the series observes of it: its number of    *)
(* samples (chunk.NumSamples()), plus the min/max window a timestampChunk  *)
(* carries.  A cursor (chunkenc.Appender) is the index of the chunk it was *)
(* obtained from.                                                          *)
(***************************************************************************)
EXTENDS Integers, Sequences, FiniteSets, TLC

(* ------------------------------ bounds --------------------------------- *)

\* Spec stops calling Append once this many samples have been accepted.
MaxAccepted == 121

\* Number of appender handles a caller holds on the one series.
NumAppenders == 1

(* --------------------------- program constants ------------------------- *)

samplesPerChunk == 120

\* numSamples is a uint16: it counts modulo 2^16.
Uint16Modulus == 65536

\* math.MaxInt64 / math.MinInt64, the window of the first timestamp chunk.
\* TLC's integers are 32 bits wide; every timestamp of the model lies
\* strictly between the two sentinels, which is all the code relies on.
MaxInt64 == 2147483647
MinInt64 == -2147483647

(* ------------------------------ values --------------------------------- *)

\* ValueType: the zero value (a field never assigned) and one real type.
ValueTypes == {"", "cpu"}

\* Return values.
OK == "nil"
ErrPeriodTypeMismatch == "ErrPeriodTypeMismatch"
ErrSampleTypeMismatch == "ErrSampleTypeMismatch"
ErrOutOfOrderSample == "ErrOutOfOrderSample"
ErrTimestampChunk == "failed to add the next timestamp chunk"
ErrDurationsChunk == "failed to add the next durations chunk"
ErrPeriodsChunk == "failed to add the next periods chunk"
ErrInsert == "seriesTree.Insert error"
ErrEncoder == "chunk.Appender error"
Panic == "panic: index out of range"
NoCall == "no call yet"

\* The step of a roll (or of Appender()) at which chunk.Appender() fails.
EncoderFailures == {"none", "timestamps", "durations", "periods"}

NoAppender == [bound |-> FALSE]

\* The arguments NewMemSeries is called with.
Lset == <<"job", "a">>
SeriesId == 1

\* samplesAppended: the nil interface value, and a prometheus.Counter.
NoCounter == [attached |-> FALSE, value |-> 0]
Counter(n) == [attached |-> TRUE, value |-> n]

Last(seq) == seq[Len(seq)]

Max(a, b) == IF a > b THEN a ELSE b

VARIABLES
    series,     \* the MemSeries
    appenders,  \* the MemSeriesAppender handles obtained from it
    ret,        \* what the last call returned
    hist,       \* history of the accepted samples (not program state)
    mu,         \* series.mu: the goroutines holding the sync.RWMutex
    writers,    \* the Append calls in flight, statement by statement
    readers,    \* the stats() and Labels() calls in flight, and their results
    hook,       \* the state of a component using the useLabelNames hook
    legend      \* the state of the ColorStackLegend component

vars == <<series, appenders, ret, hist, mu, writers, readers, hook, legend>>

\* The variables of the calls running concurrently; the specifications in
\* which every call runs from its first to its last statement in one step
\* leave them alone.
threads == <<mu, writers, readers>>

\* The mutex held by nobody.
Unlocked == [writer |-> 0, readers |-> {}]

\* No call in flight.
NoThreads ==
    /\ mu = Unlocked
    /\ writers = << >>
    /\ readers = << >>

\* useLabelNames before the component's first effect has run: loading is
\* useState(true), result is useState({}), no labels request was issued.
\* requests lists the profile types of the requests issued so far, in order;
\* outstanding holds the indexes of those that have not settled; mounted says
\* whether the effect has run at all.
NoResult == [kind |-> "none"]

NoHook ==
    [ mounted |-> FALSE,
      profileType |-> "",
      loading |-> TRUE,
      result |-> NoResult,
      requests |-> << >>,
      outstanding |-> {} ]

\* The value of the URL parameter binary_frame_filter as useURLState hands
\* it to the legend: undefined, a string, or an array of strings.  A string
\* is the sequence of its characters.
Undefined == [kind |-> "undefined"]
String(str) == [kind |-> "string", str |-> str]
Array(arr) == [kind |-> "array", arr |-> arr]

\* The legend on a page whose URL has no binary_frame_filter.
NoLegend == [currentSearchString |-> Undefined]

(* ----------------------------- chunkenc -------------------------------- *)

\* chunkenc.Appender.AppendAt(index, v) on a chunk holding n samples: the
\* value lands at slot index, the slots before it that were never written
\* are padded, and a slot already written is never overwritten.  The result
\* is the chunk's new NumSamples().
AppendAt(n, index) == IF n < index THEN index + 1 ELSE n + 1

equalValueType(a, b) == a = b

(* ----------------------------- NewMemSeries ---------------------------- *)

NewMemSeries ==
    [ lset |-> Lset,
      id |-> SeriesId,
      periodType |-> "",
      sampleType |-> "",
      minTime |-> 0,
      maxTime |-> 0,
      timestamps |-> << [minTime |-> MaxInt64, maxTime |-> MinInt64, chunk |-> 0] >>,
      durations |-> << 0 >>,
      periods |-> << 0 >>,
      flatValues |-> [k \in {} |-> << >>],
      cumulativeValues |-> [k \in {} |-> << >>],
      numSamples |-> 0,
      samplesAppended |-> NoCounter ]

\* No sample accepted yet: n counts the accepted samples; first, last and
\* lastTree are meaningful once n > 0; firstNonzero is 0 until a sample with
\* a nonzero timestamp was accepted; max is the greatest accepted timestamp.
NoHistory ==
    [ n |-> 0,
      first |-> [periodType |-> "", sampleType |-> "", timestamp |-> 0],
      tagsKept |-> TRUE,
      firstNonzero |-> 0,
      last |-> 0,
      max |-> MinInt64,
      lastTree |-> [cumulative |-> {}, flat |-> {}],
      rollFailed |-> FALSE ]

Init ==
    /\ series = NewMemSeries
    /\ appenders = [i \in 1..NumAppenders |-> NoAppender]
    /\ ret = NoCall
    /\ hist = NoHistory
    /\ hook = NoHook
    /\ legend = NoLegend
    /\ NoThreads

(* --------------------------- MemSeries.Appender ------------------------ *)

\* Appender(): all three cursors are taken at index len(s.timestamps)-1.
\* The result is the return value and the handle (NoAppender on an error).
Appender(s, encErr) ==
    LET i == Len(s.timestamps) IN
    IF encErr = "timestamps" THEN [ret |-> ErrEncoder, app |-> NoAppender]
    ELSE IF i > Len(s.durations) THEN [ret |-> Panic, app |-> NoAppender]
    ELSE IF encErr = "durations" THEN [ret |-> ErrEncoder, app |-> NoAppender]
    ELSE IF i > Len(s.periods) THEN [ret |-> Panic, app |-> NoAppender]
    ELSE IF encErr = "periods" THEN [ret |-> ErrEncoder, app |-> NoAppender]
    ELSE [ret |-> OK,
          app |-> [bound |-> TRUE, timestamps |-> i, duration |-> i, periods |-> i]]

(* ------------------------- MemSeriesTree.Insert ------------------------ *)

\* The column of key k after Insert wrote a value at slot index: a column
\* seen for the first time is created with as many chunks as the timestamps
\* column has, and the value goes to its last chunk.
InsertValue(columns, k, numChunks, index) ==
    LET col == IF k \in DOMAIN columns THEN columns[k]
               ELSE [c \in 1..numChunks |-> 0]
    IN [col EXCEPT ![Len(col)] = AppendAt(@, index)]

InsertValues(columns, keys, numChunks, index) ==
    [k \in DOMAIN columns \cup keys |->
        IF k \in keys THEN InsertValue(columns, k, numChunks, index)
        ELSE columns[k]]

\* seriesTree.Insert(index, profileTree).
Insert(s, index, tree) ==
    [s EXCEPT
        !.cumulativeValues = InsertValues(@, tree.cumulative, Len(s.timestamps), index),
        !.flatValues = InsertValues(@, tree.flat, Len(s.timestamps), index)]

\* appendTree with the running sample count as the slot.
appendTreeNoModulo(s, tree) == Insert(s, s.numSamples, tree)

\* appendTree with every tree inserted at slot 0.
appendTreeSlotZero(s, tree) == Insert(s, 0, tree)

\* appendTree: the slot is numSamples % samplesPerChunk.
appendTree(s, tree) == Insert(s, s.numSamples % samplesPerChunk, tree)

(* ------------------------ MemSeriesAppender.Append --------------------- *)

\* The first sample fixes the type tags: done whenever numSamples is 0,
\* before any validation.
FixTypes(s, p) ==
    IF s.numSamples = 0
    THEN [s EXCEPT !.periodType = p.periodType, !.sampleType = p.sampleType]
    ELSE s

\* A roll that starts every key's column afresh.
RollValuesFresh(columns) == [k \in DOMAIN columns |-> << 0 >>]

\* A roll that leaves the per-key maps alone.
RollValuesSkipped(columns) == columns

\* The roll's loops over the per-key maps: one fresh chunk for every key.
RollValues(columns) == [k \in DOMAIN columns |-> Append(columns[k], 0)]

\* A roll that extends every column and leaves the appender's cursors on the
\* chunks they were bound to.
RollStaleCursors(s, a, timestamp, encErr) ==
    [ series |-> [s EXCEPT
                    !.cumulativeValues = RollValues(@),
                    !.flatValues = RollValues(@),
                    !.timestamps = Append(@, [minTime |-> timestamp,
                                              maxTime |-> timestamp,
                                              chunk |-> 0]),
                    !.durations = Append(@, 0),
                    !.periods = Append(@, 0)],
      app |-> a,
      ret |-> IF encErr = "none" THEN OK ELSE ErrPeriodsChunk ]

\* The roll, under the lock.  encErr names the chunk.Appender() call that
\* fails, if any: the code returns right there, keeping what it did before.
Roll(s, a, timestamp, encErr) ==
    LET s1 == [s EXCEPT
                 !.cumulativeValues = RollValues(@),
                 !.flatValues = RollValues(@),
                 !.timestamps = Append(@, [minTime |-> timestamp,
                                           maxTime |-> timestamp,
                                           chunk |-> 0])]
        a1 == [a EXCEPT !.timestamps = Len(s1.timestamps)]
        s2 == [s1 EXCEPT !.durations = Append(@, 0)]
        a2 == [a1 EXCEPT !.duration = Len(s2.durations)]
        s3 == [s2 EXCEPT !.periods = Append(@, 0)]
        a3 == [a2 EXCEPT !.periods = Len(s3.periods)]
    IN  IF encErr = "timestamps" THEN [series |-> s1, app |-> a, ret |-> ErrTimestampChunk]
        ELSE IF encErr = "durations" THEN [series |-> s2, app |-> a1, ret |-> ErrDurationsChunk]
        ELSE IF encErr = "periods" THEN [series |-> s3, app |-> a2, ret |-> ErrPeriodsChunk]
        ELSE [series |-> s3, app |-> a3, ret |-> OK]

\* The three positional writes through the appender's bound cursors.
WriteAt(s, a, index) ==
    [s EXCEPT
        !.timestamps[a.timestamps].chunk = AppendAt(@, index),
        !.durations[a.duration] = AppendAt(@, index),
        !.periods[a.periods] = AppendAt(@, index)]

\* An ordering check that lets a timestamp equal to maxTime through.
OutOfOrderStrict(s, p) == p.timestamp < s.maxTime

\* The ordering check.
OutOfOrder(s, p) == p.timestamp <= s.maxTime

\* minTime following every accepted timestamp.
NewMinTimeAlways(minTime, timestamp) == timestamp

\* Set the timestamp as minTime if timestamp != 0.
NewMinTime(minTime, timestamp) ==
    IF minTime = 0 /\ timestamp # 0 THEN timestamp ELSE minTime

\* The window of the tail timestamp chunk (under the lock).
UpdateWindow(s, timestamp) ==
    LET tail == Len(s.timestamps) IN
    [s EXCEPT
        !.timestamps[tail].minTime = IF @ > timestamp THEN timestamp ELSE @,
        !.timestamps[tail].maxTime = IF @ < timestamp THEN timestamp ELSE @]

\* minTime and maxTime.
SetTimes(s, timestamp) ==
    [s EXCEPT !.minTime = NewMinTime(@, timestamp), !.maxTime = timestamp]

\* a.s.numSamples++ on a uint16.
IncrementSamples(s) == [s EXCEPT !.numSamples = (@ + 1) % Uint16Modulus]

\* The window of the tail timestamp chunk, minTime, maxTime, numSamples.
Bookkeeping(s, timestamp) ==
    IncrementSamples(SetTimes(UpdateWindow(s, timestamp), timestamp))

\* A metric that is incremented whether or not it is attached.
IncMetricAlways(s) == [s EXCEPT !.samplesAppended.value = @ + 1]

\* samplesAppended.Inc() if a counter is attached.
IncMetric(s) ==
    IF s.samplesAppended.attached
    THEN [s EXCEPT !.samplesAppended.value = @ + 1]
    ELSE s

\* The three validations, in the order of the code: the error of the first
\* one that fails, OK if none does.
Validate(s, p) ==
    IF ~equalValueType(s.periodType, p.periodType) THEN ErrPeriodTypeMismatch
    ELSE IF ~equalValueType(s.sampleType, p.sampleType) THEN ErrSampleTypeMismatch
    ELSE IF OutOfOrder(s, p) THEN ErrOutOfOrderSample
    ELSE OK

\* a.Append(p), where insertErr says whether seriesTree.Insert fails and
\* encErr which cursor construction of the roll fails.  The result is the
\* series, the appender (its cursors are re-bound by a roll) and the return
\* value.
AppendCall(s0, a, p, insertErr, encErr) ==
    LET s == FixTypes(s0, p) IN
    IF Validate(s, p) # OK
    THEN [series |-> s, app |-> a, ret |-> Validate(s, p)]
    ELSE
        LET newChunks == Last(s.timestamps).chunk >= samplesPerChunk
            r == IF newChunks THEN Roll(s, a, p.timestamp, encErr)
                 ELSE [series |-> s, app |-> a, ret |-> OK]
        IN  IF r.ret # OK THEN r
            ELSE IF insertErr THEN [r EXCEPT !.ret = ErrInsert]
            ELSE
                LET index == r.series.numSamples % samplesPerChunk
                    s4 == appendTree(r.series, p.tree)
                    s5 == WriteAt(s4, r.app, index)
                    s6 == Bookkeeping(s5, p.timestamp)
                IN  [series |-> IncMetric(s6), app |-> r.app, ret |-> OK]

(* ------------------------------ history -------------------------------- *)

RollErrors == {ErrTimestampChunk, ErrDurationsChunk, ErrPeriodsChunk}

\* The history after one more sample p was accepted.
Accept(h, p) ==
    [ h EXCEPT
        !.n = @ + 1,
        !.first = IF h.n = 0
                  THEN [periodType |-> p.periodType, sampleType |-> p.sampleType,
                        timestamp |-> p.timestamp]
                  ELSE @,
        !.tagsKept = @ /\ (h.n > 0 => /\ p.periodType = h.first.periodType
                                      /\ p.sampleType = h.first.sampleType),
        !.firstNonzero = IF @ = 0 THEN p.timestamp ELSE @,
        !.last = p.timestamp,
        !.max = Max(@, p.timestamp),
        !.lastTree = p.tree ]

\* The history after Append(p) returned r.
Record(h, p, r) ==
    IF r = OK THEN Accept(h, p)
    ELSE IF r \in RollErrors THEN [h EXCEPT !.rollFailed = TRUE]
    ELSE h

(* ------------------------------- inputs -------------------------------- *)

EmptyTree == [cumulative |-> {}, flat |-> {}]

\* The value trees of the samples: the keys that get a cumulative value and
\* those that get a flat value.
Trees ==
    { EmptyTree,
      [cumulative |-> {"k1"}, flat |-> {"k1"}],
      [cumulative |-> {"k1", "k2"}, flat |-> {"k2"}] }

\* Absolute timestamps a sample may carry besides those next to maxTime.
EarlyTimestamps == {0, 2}

\* Timestamps next to maxTime (equal: rejected, one more: accepted) and the
\* early ones.
Timestamps(s) == {s.maxTime, s.maxTime + 1} \cup EarlyTimestamps

\* Samples carry a non-empty value tree only in these slots of a chunk.
TreeSlots == {0, 1}

Profiles(s) ==
    [ periodType : ValueTypes,
      sampleType : ValueTypes,
      timestamp : Timestamps(s),
      tree : IF s.numSamples % samplesPerChunk \in TreeSlots THEN Trees ELSE {EmptyTree} ]

\* seriesTree.Insert can fail on a tree that has nodes to insert.
InsertFailures(tree) == IF tree = EmptyTree THEN {FALSE} ELSE BOOLEAN

\* A cursor construction can fail only where one is constructed: in a roll.
RollFailures(s) ==
    IF Last(s.timestamps).chunk >= samplesPerChunk THEN EncoderFailures ELSE {"none"}

(* ------------------------------- actions ------------------------------- *)

\* s.Appender(), its result kept in handle i.
GetAppender(i, encErr) ==
    LET r == Appender(series, encErr) IN
    /\ appenders' = [appenders EXCEPT ![i] = r.app]
    /\ ret' = r.ret
    /\ UNCHANGED <<series, hist, threads, hook, legend>>

\* appenders[i].Append(p).
DoAppend(i, p, insertErr, encErr) ==
    /\ appenders[i].bound
    /\ LET r == AppendCall(series, appenders[i], p, insertErr, encErr) IN
        /\ series' = r.series
        /\ appenders' = [appenders EXCEPT ![i] = r.app]
        /\ ret' = r.ret
        /\ hist' = Record(hist, p, r.ret)
    /\ UNCHANGED <<threads, hook, legend>>

Next ==
    \/ \E i \in 1..NumAppenders, encErr \in EncoderFailures : GetAppender(i, encErr)
    \/ \E i \in 1..NumAppenders, p \in Profiles(series) :
       \E insertErr \in InsertFailures(p.tree), encErr \in RollFailures(series) :
            /\ hist.n < MaxAccepted
            /\ DoAppend(i, p, insertErr, encErr)

Spec == Init /\ [][Next]_vars

(* ------------------------- long-running series ------------------------ *)

\* The wrap of numSamples takes 2^16 accepted samples.  SpecWrap starts from
\* the state the series is in after WrapStart valid samples were appended
\* through handle 1 to a new series, computed with the operators of the
\* actions above: sample k carries timestamp k, the type tags "cpu" and, in
\* slot 0 of the first chunk, a tree; no call fails.

\* Number of samples the prefix appends: one short of 2^16.
WrapStart == Uint16Modulus - 1

\* SpecWrap stops calling Append once this many more samples were accepted.
MaxWrapAccepted == 108

PrefixProfile(s) ==
    [ periodType |-> "cpu", sampleType |-> "cpu", timestamp |-> s.maxTime + 1,
      tree |-> IF s.maxTime = 0 THEN [cumulative |-> {"k1"}, flat |-> {"k1"}]
               ELSE EmptyTree ]

PrefixAppend(st) ==
    LET p == PrefixProfile(st.series)
        r == AppendCall(st.series, st.app, p, FALSE, "none")
    IN  [series |-> r.series, app |-> r.app, hist |-> Accept(st.hist, p)]

\* n samples appended one after the other.  The samples are split in halves
\* and the state after the first half is computed (all its samples were
\* accepted) before the second half starts, to keep the recursion shallow.
RECURSIVE PrefixSamples(_, _)
PrefixSamples(st, n) ==
    IF n = 0 THEN st
    ELSE IF n = 1 THEN PrefixAppend(st)
    ELSE LET mid == PrefixSamples(st, n \div 2)
         IN  IF mid.hist.n = st.hist.n + (n \div 2)
             THEN PrefixSamples(mid, n - (n \div 2))
             ELSE mid

PrefixState ==
    PrefixSamples([series |-> NewMemSeries,
                   app |-> Appender(NewMemSeries, "none").app,
                   hist |-> NoHistory],
                  WrapStart)

InitWrap ==
    LET st == PrefixState IN
    /\ series = st.series
    /\ appenders = [i \in 1..NumAppenders |-> IF i = 1 THEN st.app ELSE NoAppender]
    /\ ret = OK
    /\ hist = st.hist
    /\ hook = NoHook
    /\ legend = NoLegend
    /\ NoThreads

WrapProfiles(s) ==
    [ periodType : ValueTypes,
      sampleType : ValueTypes,
      timestamp : {s.maxTime, s.maxTime + 1},
      tree : {EmptyTree} ]

NextWrap ==
    \/ \E encErr \in EncoderFailures : GetAppender(1, encErr)
    \/ \E p \in WrapProfiles(series) :
        /\ hist.n < WrapStart + MaxWrapAccepted
        /\ DoAppend(1, p, FALSE, "none")

SpecWrap == InitWrap /\ [][NextWrap]_vars

(* ------------------------- alternating appenders ---------------------- *)

\* A caller holding several appenders of the one series and using them one
\* after the other, never concurrently.  SpecAlternate starts from the state
\* after RollStart valid samples were appended through handle 1 to a new
\* series (computed as for SpecWrap), so that the first chunk fills up and
\* rolls within a few calls; no Append fails in a roll or a tree insertion.

\* Number of samples the prefix appends: two short of a full chunk.
RollStart == samplesPerChunk - 2

\* Number of appender handles in SpecAlternate.
NumAlternating == 2

\* SpecAlternate stops calling Append once this many more samples were
\* accepted.
MaxAlternateAccepted == 5

RollPrefixState ==
    PrefixSamples([series |-> NewMemSeries,
                   app |-> Appender(NewMemSeries, "none").app,
                   hist |-> NoHistory],
                  RollStart)

InitAlternate ==
    LET st == RollPrefixState IN
    /\ series = st.series
    /\ appenders = [i \in 1..NumAlternating |-> IF i = 1 THEN st.app ELSE NoAppender]
    /\ ret = OK
    /\ hist = st.hist
    /\ hook = NoHook
    /\ legend = NoLegend
    /\ NoThreads

NextAlternate ==
    \/ \E i \in 1..NumAlternating, encErr \in EncoderFailures : GetAppender(i, encErr)
    \/ \E i \in 1..NumAlternating, p \in WrapProfiles(series) :
        /\ hist.n < RollStart + MaxAlternateAccepted
        /\ DoAppend(i, p, FALSE, "none")

SpecAlternate == InitAlternate /\ [][NextAlternate]_vars

(* ------------------------ sample counter metric ------------------------ *)

\* A series whose owner attached a sample counter metric right after
\* constructing it.  SpecMetric starts from the state after RollStart valid
\* samples were appended to it (computed as for SpecWrap) and makes the
\* calls of Spec, failing ones included, around the roll.

\* SpecMetric stops calling Append once this many more samples were accepted.
MaxMetricAccepted == 4

MetricPrefixState ==
    LET s == [NewMemSeries EXCEPT !.samplesAppended = Counter(0)] IN
    PrefixSamples([series |-> s, app |-> Appender(s, "none").app, hist |-> NoHistory],
                  RollStart)

InitMetric ==
    LET st == MetricPrefixState IN
    /\ series = st.series
    /\ appenders = <<st.app>>
    /\ ret = OK
    /\ hist = st.hist
    /\ hook = NoHook
    /\ legend = NoLegend
    /\ NoThreads

NextMetric ==
    \/ \E encErr \in EncoderFailures : GetAppender(1, encErr)
    \/ \E p \in Profiles(series) :
       \E insertErr \in InsertFailures(p.tree), encErr \in RollFailures(series) :
            /\ hist.n < RollStart + MaxMetricAccepted
            /\ DoAppend(1, p, insertErr, encErr)

SpecMetric == InitMetric /\ [][NextMetric]_vars

(* ------------------------- timestamps further on ----------------------- *)

\* Samples whose timestamps lie further than one tick above maxTime, around
\* a roll.  SpecWindow starts from the state after WindowStart valid samples
\* (computed as for SpecWrap) and makes the calls of Spec, failing ones
\* included, through the one appender.

\* Number of samples the prefix appends: one short of a full chunk.
WindowStart == samplesPerChunk - 1

\* SpecWindow stops calling Append once this many more samples were accepted.
MaxWindowAccepted == 3

WindowPrefixState ==
    PrefixSamples([series |-> NewMemSeries,
                   app |-> Appender(NewMemSeries, "none").app,
                   hist |-> NoHistory],
                  WindowStart)

InitWindow ==
    LET st == WindowPrefixState IN
    /\ series = st.series
    /\ appenders = <<st.app>>
    /\ ret = OK
    /\ hist = st.hist
    /\ hook = NoHook
    /\ legend = NoLegend
    /\ NoThreads

WindowProfiles(s) ==
    [ periodType : {"cpu"},
      sampleType : {"cpu"},
      timestamp : {s.maxTime, s.maxTime + 1, s.maxTime + 2},
      tree : {EmptyTree, [cumulative |-> {"k1"}, flat |-> {"k1"}]} ]

NextWindow ==
    \E p \in WindowProfiles(series) :
    \E insertErr \in InsertFailures(p.tree), encErr \in RollFailures(series) :
        /\ hist.n < WindowStart + MaxWindowAccepted
        /\ DoAppend(1, p, insertErr, encErr)

SpecWindow == InitWindow /\ [][NextWindow]_vars

(* --------------------------- concurrent calls -------------------------- *)

\* Append statement by statement, next to stats() and Labels() calls of other
\* goroutines.  A writer is at one of these places of Append:
\*   lockCheck, check          the Lock of line 191, lines 192-195
\*   lockRoll, rollCumulative, rollFlat, rollTimestamps, rollDurations,
\*   rollPeriods               the Lock of line 198, lines 200-234
\*   lockTree, insert          lines 238-240 (seriesTree.Insert locks itself)
\*   write                     lines 242-244
\*   lockWindow, window        the Lock of line 246, lines 247-253
\*   times, increment, metric  lines 256-260, line 261, lines 263-266
\* and a reader at rlock, readMaps, readSamples (lines 130, 133-152, 155)
\* of stats(), or at labels (line 85) of Labels().
\* SpecConc starts from the state after ConcStart valid samples, so that the
\* first chunk is full after the first accepted sample; or from the state a
\* series is in when the roll to its second chunk failed at the durations
\* cursor and ConcStart samples were accepted since, so that the next roll
\* starts from mismatched chunk counts.

\* Number of goroutines calling stats() and Labels().
NumReaders == 1

\* SpecConc stops calling Append once this many more samples were accepted.
MaxConcAccepted == 2

\* Number of samples the prefix appends: one short of a full chunk.
ConcStart == samplesPerChunk - 1

NoProfile == [periodType |-> "", sampleType |-> "", timestamp |-> 0, tree |-> EmptyTree]

\* waiting: the writer has called mu.Lock() and is blocked in it; cursors: the
\* cursors an Appender() call running statement by statement has obtained.
IdleWriter == [pc |-> "idle", p |-> NoProfile, waiting |-> FALSE, cursors |-> << >>]

\* flat and cumulative are the slices a stats() call is building.
IdleReader == [pc |-> "idle", flat |-> << >>, cumulative |-> << >>]

\* The places where a writer calls mu.Lock(), and the statement that follows
\* each; seriesTree.Insert takes the lock itself.
AfterLock ==
    [ lockCheck |-> "check", lockRoll |-> "rollCumulative", lockTree |-> "insert",
      lockWindow |-> "window" ]

LockPcs == DOMAIN AfterLock

\* sync.RWMutex.Lock() proceeds when nobody holds the mutex.
CanLock(m) == m.writer = 0 /\ m.readers = {}

\* An RLock() that does not wait for anybody.
CanRLockUnguarded(m, pending) == TRUE

\* sync.RWMutex.RLock() proceeds when no writer holds the mutex and none is
\* blocked in Lock().
CanRLock(m, pending) == m.writer = 0 /\ ~pending

LockPending == \E w \in DOMAIN writers : writers[w].waiting

\* An Unlock() that leaves the mutex held.
UnlockSkipped(m) == m

\* mu.Unlock().
Unlock(m) == [m EXCEPT !.writer = 0]

\* Append of writer w returns r for the sample p.
Return(w, p, r) ==
    /\ writers' = [writers EXCEPT ![w] = IdleWriter]
    /\ ret' = r
    /\ hist' = Record(hist, p, r)

\* The writer moves on to the statement at pc.
Goto(w, pc) ==
    /\ writers' = [writers EXCEPT ![w].pc = pc]
    /\ UNCHANGED <<ret, hist>>

\* Lines 170-188: the call, the type tags of a first sample, validation.
AppendBegin(w, p) ==
    /\ writers[w].pc = "idle"
    /\ appenders[w].bound
    /\ series' = FixTypes(series, p)
    /\ IF Validate(series', p) # OK
       THEN Return(w, p, Validate(series', p))
       ELSE /\ writers' = [writers EXCEPT ![w] = [IdleWriter EXCEPT !.pc = "lockCheck", !.p = p]]
            /\ UNCHANGED <<ret, hist>>
    /\ UNCHANGED <<appenders, mu, readers, hook, legend>>

\* mu.Lock() is called (lines 191, 198, 246 and in seriesTree.Insert): from
\* now on no new reader gets the mutex.
Lock(w) ==
    /\ writers[w].pc \in LockPcs
    /\ ~writers[w].waiting
    /\ writers' = [writers EXCEPT ![w].waiting = TRUE]
    /\ UNCHANGED <<series, appenders, ret, hist, mu, readers, hook, legend>>

\* mu.Lock() returns: the writer holds the mutex.
Locked(w) ==
    /\ writers[w].waiting
    /\ CanLock(mu)
    /\ mu' = [mu EXCEPT !.writer = w]
    /\ writers' = [writers EXCEPT ![w].waiting = FALSE, ![w].pc = AfterLock[@]]
    /\ UNCHANGED <<series, appenders, ret, hist, readers, hook, legend>>

\* Lines 192-195: is the tail chunk full; Unlock.
CheckFull(w) ==
    /\ writers[w].pc = "check"
    /\ mu' = Unlock(mu)
    /\ Goto(w, IF Last(series.timestamps).chunk >= samplesPerChunk
                THEN "lockRoll" ELSE "lockTree")
    /\ UNCHANGED <<series, appenders, readers, hook, legend>>

\* A roll that does not extend the column.
NewChunkNone(column) == column

\* append(column, chunkenc.NewRLEChunk()), lines 219 and 227.
NewChunk(column) == Append(column, 0)

\* Lines 200-202.
RollCumulative(w) ==
    /\ writers[w].pc = "rollCumulative"
    /\ series' = [series EXCEPT !.cumulativeValues = RollValues(@)]
    /\ Goto(w, "rollFlat")
    /\ UNCHANGED <<appenders, mu, readers, hook, legend>>

\* Lines 203-205.
RollFlat(w) ==
    /\ writers[w].pc = "rollFlat"
    /\ series' = [series EXCEPT !.flatValues = RollValues(@)]
    /\ Goto(w, "rollTimestamps")
    /\ UNCHANGED <<appenders, mu, readers, hook, legend>>

\* Lines 207-217; fail: chunk.Appender() returns an error.
RollTimestamps(w, fail) ==
    /\ writers[w].pc = "rollTimestamps"
    /\ series' = [series EXCEPT !.timestamps =
                    Append(@, [minTime |-> writers[w].p.timestamp,
                               maxTime |-> writers[w].p.timestamp,
                               chunk |-> 0])]
    /\ IF fail
       THEN /\ mu' = Unlock(mu)
            /\ Return(w, writers[w].p, ErrTimestampChunk)
            /\ UNCHANGED appenders
       ELSE /\ appenders' = [appenders EXCEPT ![w].timestamps = Len(series'.timestamps)]
            /\ Goto(w, "rollDurations")
            /\ UNCHANGED mu
    /\ UNCHANGED <<readers, hook, legend>>

\* Lines 219-225.
RollDurations(w, fail) ==
    /\ writers[w].pc = "rollDurations"
    /\ series' = [series EXCEPT !.durations = NewChunk(@)]
    /\ IF fail
       THEN /\ mu' = Unlock(mu)
            /\ Return(w, writers[w].p, ErrDurationsChunk)
            /\ UNCHANGED appenders
       ELSE /\ appenders' = [appenders EXCEPT ![w].duration = Len(series'.durations)]
            /\ Goto(w, "rollPeriods")
            /\ UNCHANGED mu
    /\ UNCHANGED <<readers, hook, legend>>

\* Lines 227-234.
RollPeriods(w, fail) ==
    /\ writers[w].pc = "rollPeriods"
    /\ series' = [series EXCEPT !.periods = NewChunk(@)]
    /\ mu' = Unlock(mu)
    /\ IF fail
       THEN /\ Return(w, writers[w].p, ErrPeriodsChunk)
            /\ UNCHANGED appenders
       ELSE /\ appenders' = [appenders EXCEPT ![w].periods = Len(series'.periods)]
            /\ Goto(w, "lockTree")
    /\ UNCHANGED <<readers, hook, legend>>

\* Lines 238-240: seriesTree.Insert, holding the lock it took, inserts the
\* values and unlocks; fail: it returns an error.
AppendTree(w, fail) ==
    /\ writers[w].pc = "insert"
    /\ mu' = Unlock(mu)
    /\ IF fail
       THEN /\ Return(w, writers[w].p, ErrInsert)
            /\ UNCHANGED series
       ELSE /\ series' = appendTree(series, writers[w].p.tree)
            /\ Goto(w, "write")
    /\ UNCHANGED <<appenders, readers, hook, legend>>

\* Lines 242-244.
Write(w) ==
    /\ writers[w].pc = "write"
    /\ series' = WriteAt(series, appenders[w], series.numSamples % samplesPerChunk)
    /\ Goto(w, "lockWindow")
    /\ UNCHANGED <<appenders, mu, readers, hook, legend>>

\* Lines 247-253.
Window(w) ==
    /\ writers[w].pc = "window"
    /\ series' = UpdateWindow(series, writers[w].p.timestamp)
    /\ mu' = Unlock(mu)
    /\ Goto(w, "times")
    /\ UNCHANGED <<appenders, readers, hook, legend>>

\* Lines 256-260.
Times(w) ==
    /\ writers[w].pc = "times"
    /\ series' = SetTimes(series, writers[w].p.timestamp)
    /\ Goto(w, "increment")
    /\ UNCHANGED <<appenders, mu, readers, hook, legend>>

\* Line 261.
Increment(w) ==
    /\ writers[w].pc = "increment"
    /\ series' = IncrementSamples(series)
    /\ Goto(w, "metric")
    /\ UNCHANGED <<appenders, mu, readers, hook, legend>>

\* Lines 263-266.
Metric(w) ==
    /\ writers[w].pc = "metric"
    /\ series' = IncMetric(series)
    /\ Return(w, writers[w].p, OK)
    /\ UNCHANGED <<appenders, mu, readers, hook, legend>>

\* A goroutine calls stats().
StatsBegin(r) ==
    /\ readers[r].pc = "idle"
    /\ readers' = [readers EXCEPT ![r].pc = "rlock"]
    /\ UNCHANGED <<series, appenders, ret, hist, mu, writers, hook, legend>>

\* Line 130: s.mu.RLock().
RLock(r) ==
    /\ readers[r].pc = "rlock"
    /\ CanRLock(mu, LockPending)
    /\ mu' = [mu EXCEPT !.readers = @ \cup {r}]
    /\ readers' = [readers EXCEPT ![r].pc = "readMaps"]
    /\ UNCHANGED <<series, appenders, ret, hist, writers, hook, legend>>

\* Lines 133-152: the loops over the chunks of flatValues and
\* cumulativeValues.  The reader keeps what it saw key by key; the slices
\* stats() returns list the chunks of all keys in map order.
ReadMaps(r) ==
    /\ readers[r].pc = "readMaps"
    /\ readers' = [readers EXCEPT ![r].flat = series.flatValues,
                                  ![r].cumulative = series.cumulativeValues,
                                  ![r].pc = "readSamples"]
    /\ UNCHANGED <<series, appenders, ret, hist, mu, writers, hook, legend>>

\* The MemSeriesStats a stats() call that has read the maps returns: the
\* per-key chunks as it read them and numSamples as it is now.
StatsResult(r) ==
    [ samples |-> series.numSamples,
      Flat |-> readers[r].flat,
      Cumulatives |-> readers[r].cumulative ]

\* Lines 154-159: samples: s.numSamples, the deferred RUnlock, the return.
ReadSamples(r) ==
    /\ readers[r].pc = "readSamples"
    /\ readers' = [readers EXCEPT ![r] = IdleReader]
    /\ mu' = [mu EXCEPT !.readers = @ \ {r}]
    /\ UNCHANGED <<series, appenders, ret, hist, writers, hook, legend>>

\* A goroutine calls Labels().
LabelsBegin(r) ==
    /\ readers[r].pc = "idle"
    /\ readers' = [readers EXCEPT ![r].pc = "labels"]
    /\ UNCHANGED <<series, appenders, ret, hist, mu, writers, hook, legend>>

\* The label set a Labels() call returns.
LabelsResult == series.lset

\* Lines 84-86: Labels() returns s.lset, taking no lock.
Labels(r) ==
    /\ readers[r].pc = "labels"
    /\ readers' = [readers EXCEPT ![r] = IdleReader]
    /\ UNCHANGED <<series, appenders, ret, hist, mu, writers, hook, legend>>

\* The samples of the concurrent calls.
ConcTrees == {EmptyTree, [cumulative |-> {"k1", "k2"}, flat |-> {"k2"}]}

ConcProfiles(s) ==
    [ periodType : ValueTypes,
      sampleType : {"cpu"},
      timestamp : {s.maxTime, s.maxTime + 1},
      tree : ConcTrees ]

ConcPrefixState ==
    PrefixSamples([series |-> NewMemSeries,
                   app |-> Appender(NewMemSeries, "none").app,
                   hist |-> NoHistory],
                  ConcStart)

\* The sample after the prefix is accepted, the next one rolls and the
\* construction of the durations cursor fails, ConcStart samples follow.
FailedRollPrefixState ==
    LET full == PrefixAppend(ConcPrefixState)
        p == PrefixProfile(full.series)
        r == AppendCall(full.series, full.app, p, FALSE, "durations")
    IN  PrefixSamples([series |-> r.series,
                       app |-> r.app,
                       hist |-> Record(full.hist, p, r.ret)],
                      ConcStart)

\* One writer (the single-writer discipline of the callers) and the readers.
InitConc ==
    \E st \in {ConcPrefixState, FailedRollPrefixState} :
    /\ series = st.series
    /\ appenders = <<st.app>>
    /\ ret = OK
    /\ hist = st.hist
    /\ hook = NoHook
    /\ legend = NoLegend
    /\ mu = Unlocked
    /\ writers = <<IdleWriter>>
    /\ readers = [r \in 1..NumReaders |-> IdleReader]

WriterStep(w) ==
    \/ Lock(w)
    \/ Locked(w)
    \/ CheckFull(w)
    \/ RollCumulative(w)
    \/ RollFlat(w)
    \/ \E fail \in BOOLEAN : RollTimestamps(w, fail)
    \/ \E fail \in BOOLEAN : RollDurations(w, fail)
    \/ \E fail \in BOOLEAN : RollPeriods(w, fail)
    \/ \E fail \in InsertFailures(writers[w].p.tree) : AppendTree(w, fail)
    \/ Write(w)
    \/ Window(w)
    \/ Times(w)
    \/ Increment(w)
    \/ Metric(w)

ReaderStep(r) ==
    \/ RLock(r)
    \/ ReadMaps(r)
    \/ ReadSamples(r)
    \/ Labels(r)

\* The number of samples accepted since the initial state, which has
\* ConcStart samples in its tail chunk.
ConcAccepted == (hist.n - ConcStart) % samplesPerChunk

NextConc ==
    \/ \E w \in DOMAIN writers, p \in ConcProfiles(series) :
        /\ ConcAccepted < MaxConcAccepted
        /\ AppendBegin(w, p)
    \/ \E w \in DOMAIN writers, encErr \in EncoderFailures :
        /\ writers[w].pc = "idle"
        /\ GetAppender(w, encErr)
    \/ \E w \in DOMAIN writers : WriterStep(w)
    \/ \E r \in DOMAIN readers : StatsBegin(r) \/ LabelsBegin(r)
    \/ \E r \in DOMAIN readers : ReaderStep(r)

SpecConc == InitConc /\ [][NextConc]_vars

\* Fair scheduling: a goroutine that can run its next statement eventually
\* runs it, and sync.RWMutex lets no RLock() wait forever while the mutex
\* is released again and again.
FairConc ==
    /\ WF_vars(WriterStep(1))
    /\ \A r \in 1..NumReaders :
        WF_vars(ReadMaps(r) \/ ReadSamples(r) \/ Labels(r)) /\ SF_vars(RLock(r))

SpecConcFair == SpecConc /\ FairConc

(* -------------------------- overlapping writers ------------------------ *)

\* Goroutines that do not keep to the single-writer discipline: each holds an
\* appender of the one series and calls Append, statement by statement, while
\* the others do, or calls Appender(), statement by statement as well (lines
\* 89, 93 and 97: appTimestamps, appDurations, appPeriods).  SpecRace starts from the state after RaceStart valid
\* samples, the first chunk full, so that the next accepted sample rolls.
\* A step is one statement (or one locked region) of one goroutine.

\* Number of goroutines calling Append.
NumWriters == 2

\* SpecRace stops calling Append once this many more samples were accepted.
MaxRaceAccepted == 1

\* Number of samples the prefix appends: a full chunk.
RaceStart == samplesPerChunk

RacePrefixState == PrefixAppend(ConcPrefixState)

\* The samples of the overlapping calls: valid type tags, no values.
RaceProfiles(s) ==
    [ periodType : {"cpu"},
      sampleType : {"cpu"},
      timestamp : {s.maxTime, s.maxTime + 1},
      tree : {EmptyTree} ]

InitRace ==
    LET st == RacePrefixState IN
    /\ series = st.series
    /\ appenders = [w \in 1..NumWriters |-> st.app]
    /\ ret = OK
    /\ hist = st.hist
    /\ hook = NoHook
    /\ legend = NoLegend
    /\ mu = Unlocked
    /\ writers = [w \in 1..NumWriters |-> IdleWriter]
    /\ readers = << >>

\* Appender() of goroutine w returns r and the handle app.
AppenderReturn(w, r, app) ==
    /\ writers' = [writers EXCEPT ![w] = IdleWriter]
    /\ appenders' = [appenders EXCEPT ![w] = app]
    /\ ret' = r

\* A goroutine calls Appender(), which takes no lock.
AppenderBegin(w) ==
    /\ writers[w].pc = "idle"
    /\ writers' = [writers EXCEPT ![w].pc = "appTimestamps"]
    /\ UNCHANGED <<series, appenders, ret, hist, mu, readers, hook, legend>>

\* Lines 89-92: the cursor of s.timestamps[len(s.timestamps)-1].
AppenderTimestamps(w, fail) ==
    /\ writers[w].pc = "appTimestamps"
    /\ IF fail
       THEN AppenderReturn(w, ErrEncoder, NoAppender)
       ELSE /\ writers' = [writers EXCEPT
                    ![w].cursors = [timestamps |-> Len(series.timestamps)],
                    ![w].pc = "appDurations"]
            /\ UNCHANGED <<appenders, ret>>
    /\ UNCHANGED <<series, hist, mu, readers, hook, legend>>

\* Lines 93-96: the cursor of s.durations[len(s.timestamps)-1], an index
\* evaluated now; out of range, the call panics.
AppenderDurations(w, fail) ==
    LET i == Len(series.timestamps) IN
    /\ writers[w].pc = "appDurations"
    /\ IF i > Len(series.durations) THEN AppenderReturn(w, Panic, NoAppender)
       ELSE IF fail THEN AppenderReturn(w, ErrEncoder, NoAppender)
       ELSE /\ writers' = [writers EXCEPT
                    ![w].cursors = [timestamps |-> @.timestamps, duration |-> i],
                    ![w].pc = "appPeriods"]
            /\ UNCHANGED <<appenders, ret>>
    /\ UNCHANGED <<series, hist, mu, readers, hook, legend>>

\* Lines 97-107: the cursor of s.periods[len(s.timestamps)-1], and the
\* appender made of the three cursors.
AppenderPeriods(w, fail) ==
    LET i == Len(series.timestamps) IN
    /\ writers[w].pc = "appPeriods"
    /\ IF i > Len(series.periods) THEN AppenderReturn(w, Panic, NoAppender)
       ELSE IF fail THEN AppenderReturn(w, ErrEncoder, NoAppender)
       ELSE AppenderReturn(w, OK, [bound |-> TRUE,
                                   timestamps |-> writers[w].cursors.timestamps,
                                   duration |-> writers[w].cursors.duration,
                                   periods |-> i])
    /\ UNCHANGED <<series, hist, mu, readers, hook, legend>>

AppenderStep(w) ==
    \/ \E fail \in BOOLEAN : AppenderTimestamps(w, fail)
    \/ \E fail \in BOOLEAN : AppenderDurations(w, fail)
    \/ \E fail \in BOOLEAN : AppenderPeriods(w, fail)

NextRace ==
    \/ \E w \in DOMAIN writers, p \in RaceProfiles(series) :
        /\ hist.n < RaceStart + MaxRaceAccepted
        /\ AppendBegin(w, p)
    \/ \E w \in DOMAIN writers : WriterStep(w)
    \/ \E w \in DOMAIN writers : AppenderBegin(w)
    \/ \E w \in DOMAIN writers : AppenderStep(w)

SpecRace == InitRace /\ [][NextRace]_vars

(* ---------------------------- useLabelNames --------------------------- *)

\* A component that uses the hook.  React runs the hook's effect after the
\* first render and after every render in which one of client, metadata,
\* start, end, profileType has changed; a labels request settles when its
\* response or its error arrives, in any order; the callbacks of one settled
\* promise (then or catch, finally) run one after the other.

\* SpecHook stops changing the inputs once this many requests were issued.
MaxRequests == 3

\* The profile types the component is rendered with; "" is the empty one.
ProfileTypes == {"", "cpu", "heap"}

\* Lines 55-57: no request for an empty profile type.
\* Lines 59-68: the request is issued and setLoading(true) called.
RunEffect(h, profileType) ==
    IF profileType = ""
    THEN [h EXCEPT !.mounted = TRUE, !.profileType = profileType]
    ELSE [h EXCEPT !.mounted = TRUE,
                   !.profileType = profileType,
                   !.requests = Append(@, profileType),
                   !.outstanding = @ \cup {Len(h.requests) + 1},
                   !.loading = TRUE]

\* Lines 70-73: the callbacks of request k, settled with a response (ok) or
\* an error: setResult, then setLoading(false).
RunCallbacks(h, k, ok) ==
    [h EXCEPT !.result = [kind |-> IF ok THEN "response" ELSE "error",
                          request |-> k,
                          profileType |-> h.requests[k]],
              !.loading = FALSE,
              !.outstanding = @ \ {k}]

\* The component is rendered (for the first time, or with a changed input)
\* with this profile type, and the effect runs.
Render(profileType) ==
    /\ Len(hook.requests) < MaxRequests
    /\ hook' = RunEffect(hook, profileType)
    /\ UNCHANGED <<series, appenders, ret, hist, threads, legend>>

\* Request k settles.
Settle(k, ok) ==
    /\ k \in hook.outstanding
    /\ hook' = RunCallbacks(hook, k, ok)
    /\ UNCHANGED <<series, appenders, ret, hist, threads, legend>>

NextHook ==
    \/ \E profileType \in ProfileTypes : Render(profileType)
    \/ \E k \in 1..MaxRequests, ok \in BOOLEAN : Settle(k, ok)

SpecHook == Init /\ [][NextHook]_vars

(* --------------------------- ColorStackLegend -------------------------- *)

\* The legend lists one entry per feature (the binary a frame belongs to)
\* and one for everything else.  A click on an entry runs the handler of
\* lines 114-128, a click on the cross of a highlighted entry the handler
\* of lines 142-153; both hand the new value to setSearchString, and the
\* legend is rendered again with it.  SpecLegend starts from a page opened
\* with any of the values of InitialFilters in its URL.

\* The entry for the frames of no listed binary.
EVERYTHING_ELSE == <<"E">>

\* The entries of the legend: binaries named a, b and ab, and the rest.
Features == { <<"a">>, <<"b">>, <<"a", "b">>, EVERYTHING_ELSE }

\* The strings a URL opens the page with are at most this long.
MaxLen == 3

\* Those strings, made of the letters of the binaries' names and commas.
Strings == UNION { [1..n -> {"a", "b", ","}] : n \in 0..MaxLen }

InitialFilters ==
    {Undefined} \cup { String(str) : str \in Strings }
        \cup { Array(<< >>), Array(<< <<"a">> >>), Array(<< <<"a">>, <<"b">> >>) }

\* String.prototype.includes: sub occurs in str.
StringIncludes(str, sub) ==
    \E i \in 0..(Len(str) - Len(sub)) : SubSeq(str, i + 1, i + Len(sub)) = sub

\* Array.prototype.includes: x is an element of arr.
ArrayIncludes(arr, x) == \E i \in DOMAIN arr : arr[i] = x

\* String.prototype.split(','): the pieces between the commas.
RECURSIVE Split(_)
Split(str) ==
    IF \E i \in DOMAIN str : str[i] = ","
    THEN LET i == CHOOSE j \in DOMAIN str :
                    /\ str[j] = ","
                    /\ \A k \in 1..(j - 1) : str[k] # ","
         IN  << SubSeq(str, 1, i - 1) >> \o Split(SubSeq(str, i + 1, Len(str)))
    ELSE << str >>

\* Array.prototype.filter(f => f !== feature).
RECURSIVE Filter(_, _)
Filter(arr, feature) ==
    IF arr = << >> THEN << >>
    ELSE IF Head(arr) = feature THEN Filter(Tail(arr), feature)
    ELSE << Head(arr) >> \o Filter(Tail(arr), feature)

\* Line 101.
filteringAllowed(feature) == feature # EVERYTHING_ELSE

\* Lines 102-103: includes is that of the string or that of the array.
isHighlighted(currentSearchString, feature) ==
    CASE currentSearchString.kind = "undefined" -> FALSE
      [] currentSearchString.kind = "string" ->
            StringIncludes(currentSearchString.str, feature)
      [] currentSearchString.kind = "array" ->
            ArrayIncludes(currentSearchString.arr, feature)

\* Lines 120-125; the empty string is falsy.
updatedSearchString(currentSearchString, feature) ==
    IF currentSearchString.kind = "array"
    THEN Array(Append(currentSearchString.arr, feature))
    ELSE IF currentSearchString.kind = "string" /\ currentSearchString.str # << >>
    THEN Array(Split(currentSearchString.str))
    ELSE Array(<< feature >>)

\* Lines 114-128: the user clicks the entry of the feature.
Click(feature) ==
    /\ legend' = [legend EXCEPT !.currentSearchString =
                        IF ~filteringAllowed(feature) \/ isHighlighted(@, feature)
                        THEN @
                        ELSE updatedSearchString(@, feature)]
    /\ UNCHANGED <<series, appenders, ret, hist, threads, hook>>

\* Lines 142-153: the user clicks the cross of the entry, which a
\* highlighted entry shows.
Remove(feature) ==
    /\ isHighlighted(legend.currentSearchString, feature)
    /\ LET currentSearchString == legend.currentSearchString
           searchString == IF currentSearchString.kind = "string"
                           THEN << currentSearchString.str >>
                           ELSE currentSearchString.arr
       IN  legend' = [legend EXCEPT !.currentSearchString =
                            Array(Filter(searchString, feature))]
    /\ UNCHANGED <<series, appenders, ret, hist, threads, hook>>

InitLegend ==
    /\ series = NewMemSeries
    /\ appenders = [i \in 1..NumAppenders |-> NoAppender]
    /\ ret = NoCall
    /\ hist = NoHistory
    /\ NoThreads
    /\ hook = NoHook
    /\ \E filter \in InitialFilters : legend = [currentSearchString |-> filter]

NextLegend ==
    \/ \E feature \in Features : Click(feature)
    \/ \E feature \in Features : Remove(feature)

SpecLegend == InitLegend /\ [][NextLegend]_vars

(* ------------------------------- claims -------------------------------- *)

\* What appenders[i].Append(p) would return, and the state it would leave,
\* if it were called in the current state.
CallResult(i, p, insertErr, encErr) ==
    AppendCall(series, appenders[i], p, insertErr, encErr)

\* The sample's type tags pass the type validation of the series: they equal
\* the fixed ones, or none is fixed yet.
TagsMatch(s, p) ==
    \/ s.numSamples = 0
    \/ p.periodType = s.periodType /\ p.sampleType = s.sampleType

\* C1: after N samples were accepted by a new series, with no failed roll,
\* numSamples = N and maxTime is the timestamp of the last accepted sample,
\* for every N.
C1_NumSamplesCountsAccepted ==
    ~hist.rollFailed =>
        /\ series.numSamples = hist.n
        /\ hist.n > 0 => series.maxTime = hist.last

\* C2: in every reachable state, an Append whose type tags match and whose
\* timestamp is not greater than maxTime returns ErrOutOfOrderSample and
\* leaves the series, type tags included, as it was.
C2_OutOfOrderLeavesSeriesUnchanged ==
    [][ \A i \in 1..NumAppenders, p \in Profiles(series) :
          \A insertErr \in InsertFailures(p.tree), encErr \in RollFailures(series) :
            ( /\ TagsMatch(series, p)
              /\ p.timestamp <= series.maxTime
              /\ DoAppend(i, p, insertErr, encErr) ) =>
                /\ ret' = ErrOutOfOrderSample
                /\ series' = series ]_vars

\* C3: once a sample was accepted, an Append whose periodType differs from
\* the series' returns ErrPeriodTypeMismatch, one whose sampleType differs
\* returns ErrSampleTypeMismatch, and both leave the series and the
\* appender as they were (no roll, even on a full tail chunk).
C3_TypeMismatchIsRejected ==
    [][ \A i \in 1..NumAppenders, p \in Profiles(series) :
          \A insertErr \in InsertFailures(p.tree), encErr \in RollFailures(series) :
            (hist.n >= 1 /\ DoAppend(i, p, insertErr, encErr)) =>
                /\ p.periodType # series.periodType =>
                        /\ ret' = ErrPeriodTypeMismatch
                        /\ series' = series
                        /\ appenders' = appenders
                /\ (p.periodType = series.periodType /\ p.sampleType # series.sampleType) =>
                        /\ ret' = ErrSampleTypeMismatch
                        /\ series' = series
                        /\ appenders' = appenders ]_vars

\* C4: once the first sample was accepted, periodType and sampleType are
\* those of that sample in every later state, and every accepted sample
\* carried them.
C4_TypeTagsNeverChange ==
    hist.n >= 1 =>
        /\ series.periodType = hist.first.periodType
        /\ series.sampleType = hist.first.sampleType
        /\ hist.tagsKept

\* All columns of s have as many chunks as its timestamps column.
ChunkCountsEqual(s) ==
    LET k == Len(s.timestamps) IN
    /\ Len(s.durations) = k
    /\ Len(s.periods) = k
    /\ \A key \in DOMAIN s.flatValues : Len(s.flatValues[key]) = k
    /\ \A key \in DOMAIN s.cumulativeValues : Len(s.cumulativeValues[key]) = k

\* C5 as claimed: after every Append that does not return an encoder
\* failure, all columns have the same number of chunks.
C5_AfterEveryAppend ==
    [][ \A i \in 1..NumAppenders, p \in Profiles(series) :
          \A insertErr \in InsertFailures(p.tree), encErr \in RollFailures(series) :
            (DoAppend(i, p, insertErr, encErr) /\ ret' \notin RollErrors) =>
                ChunkCountsEqual(series') ]_vars

\* C5, amended: as long as no roll of the series has failed, timestamps,
\* durations, periods and every key of flatValues and cumulativeValues have
\* the same number of chunks; a roll extends every known key.
C5_ChunkCountsEqual == ~hist.rollFailed => ChunkCountsEqual(series)

\* A roll has just extended the column of a key the sample has no value for.
C5_Witness ==
    /\ ret = OK
    /\ hist.n = samplesPerChunk + 1
    /\ ~hist.rollFailed
    /\ \E key \in DOMAIN series.cumulativeValues :
        /\ key \notin hist.lastTree.cumulative
        /\ Len(series.cumulativeValues[key]) = 2

\* The sample counts of the chunks of the timestamps column.
TimestampCounts(s) == [c \in 1..Len(s.timestamps) |-> s.timestamps[c].chunk]

\* A roll opened the tail chunk and the call returned before writing to it
\* (the tree insertion failed).
TailUnwritten(s) == Len(s.timestamps) > 1 /\ Last(s.timestamps).chunk = 0

\* C6: after N accepted samples, with no failed roll and no tail chunk left
\* unwritten by a failed tree insertion, each fixed column has
\* max(1, ceil(N/120)) chunks and its tail chunk holds the
\* N - 120 * (chunks - 1) samples the earlier chunks do not.
C6_FixedColumnsShape ==
    (~hist.rollFailed /\ ~TailUnwritten(series)) =>
        LET N == hist.n
            k == Max(1, (N + samplesPerChunk - 1) \div samplesPerChunk)
        IN  \A column \in {TimestampCounts(series), series.durations, series.periods} :
                /\ Len(column) = k
                /\ Last(column) = N - samplesPerChunk * (k - 1)

\* C7 as claimed: after the 121st accepted sample every key has 2 chunks and
\* its tail chunk reports 1 sample.
C7_EveryKeyTailHasOneSample ==
    hist.n = samplesPerChunk + 1 =>
        /\ \A key \in DOMAIN series.flatValues :
            Len(series.flatValues[key]) = 2 /\ series.flatValues[key][2] = 1
        /\ \A key \in DOMAIN series.cumulativeValues :
            Len(series.cumulativeValues[key]) = 2 /\ series.cumulativeValues[key][2] = 1

\* C7, amended: after the 121st accepted sample every key has 2 chunks; its
\* tail chunk reports 1 sample if that sample carried a value for the key,
\* and no sample otherwise.
C7_KeysAfterRoll ==
    hist.n = samplesPerChunk + 1 =>
        /\ \A key \in DOMAIN series.flatValues :
            /\ Len(series.flatValues[key]) = 2
            /\ series.flatValues[key][2] = IF key \in hist.lastTree.flat THEN 1 ELSE 0
        /\ \A key \in DOMAIN series.cumulativeValues :
            /\ Len(series.cumulativeValues[key]) = 2
            /\ series.cumulativeValues[key][2] =
                    IF key \in hist.lastTree.cumulative THEN 1 ELSE 0

\* After the 121st sample, one key got a value from it and another did not.
C7_Witness ==
    /\ hist.n = samplesPerChunk + 1
    /\ \E k1, k2 \in DOMAIN series.cumulativeValues :
        /\ series.cumulativeValues[k1] = <<1, 1>>
        /\ series.cumulativeValues[k2][2] = 0

\* A column created with numChunks chunks for a value at slot index.
NewColumn(numChunks, index) ==
    [c \in 1..numChunks |-> IF c = numChunks THEN index + 1 ELSE 0]

C9_TimestampsStrictlyIncrease ==
    /\ hist.n >= 1 => (series.maxTime = hist.max /\ hist.last = hist.max)
    /\ \A i \in 1..NumAppenders, p \in Profiles(series) :
        appenders[i].bound =>
            \A insertErr \in InsertFailures(p.tree), encErr \in RollFailures(series) :
                LET r == CallResult(i, p, insertErr, encErr) IN
                /\ r.ret = OK => p.timestamp > hist.max
                /\ p.timestamp <= series.maxTime => r.ret # OK

\* Samples were accepted and one whose timestamp is maxTime was rejected.
C9_Witness ==
    /\ hist.n >= 2
    /\ ret = ErrOutOfOrderSample
    /\ series.maxTime = hist.last
    /\ hist.last > hist.first.timestamp

\* C10: minTime is the timestamp of the first accepted sample whose
\* timestamp is not 0 (0 until there is one), in every state.
C10_MinTimeSetOnce == series.minTime = hist.firstNonzero

\* Later samples were accepted and minTime is still the first timestamp.
C10_Witness ==
    /\ hist.n >= 2
    /\ series.minTime = hist.first.timestamp
    /\ series.minTime # 0
    /\ series.minTime < hist.last

\* C11: the first Append on a newly constructed series is never rejected
\* with ErrOutOfOrderSample, whatever the timestamp of the sample.
C11_FirstAppendPassesOrdering ==
    [][ \A i \in 1..NumAppenders, p \in Profiles(series) :
          \A insertErr \in InsertFailures(p.tree), encErr \in RollFailures(series) :
            (series = NewMemSeries /\ DoAppend(i, p, insertErr, encErr)) =>
                ret' # ErrOutOfOrderSample ]_vars

\* The sample counts of all chunks of all columns of s.
ChunkCounts(s) ==
    { s.timestamps[c].chunk : c \in 1..Len(s.timestamps) }
        \cup { s.durations[c] : c \in 1..Len(s.durations) }
        \cup { s.periods[c] : c \in 1..Len(s.periods) }
        \cup UNION { { s.flatValues[k][c] : c \in 1..Len(s.flatValues[k]) } :
                        k \in DOMAIN s.flatValues }
        \cup UNION { { s.cumulativeValues[k][c] : c \in 1..Len(s.cumulativeValues[k]) } :
                        k \in DOMAIN s.cumulativeValues }

\* C12: in every reachable state every chunk of timestamps, durations,
\* periods and of every per-key value column holds at most 120 samples.
C12_ChunksHoldAtMost120 ==
    \A n \in ChunkCounts(series) : n <= samplesPerChunk

\* Writer w is about to write the per-key maps: in a roll or in
\* seriesTree.Insert.
WritesMaps(w) == writers[w].pc \in {"rollCumulative", "rollFlat", "insert"}

\* C13: while an Append is executing, no stats() call is about to read a
\* field of the series that the Append is about to write: not the per-key
\* maps, and not numSamples (line 155 against line 261).
C13_ReadersExcludeWriter ==
    \A r \in DOMAIN readers, w \in DOMAIN writers :
        /\ readers[r].pc = "readMaps" => ~WritesMaps(w)
        /\ readers[r].pc = "readSamples" => writers[w].pc # "increment"

\* All columns of the two maps have the same number of chunks.
SameChunkCount(flat, cumulative) ==
    \A m1, m2 \in {flat, cumulative} :
        \A k1 \in DOMAIN m1, k2 \in DOMAIN m2 : Len(m1[k1]) = Len(m2[k2])

\* C14: every stats() call, with or without an Append in flight, has seen
\* the same number of chunks for all keys of flatValues and
\* cumulativeValues (never some columns rolled and others not); and what a
\* call returning while no Append is in flight has seen is the state of the
\* series: its per-key columns, chunk by chunk.
C14_StatsSeesWholeRolls ==
    [][ \A r \in DOMAIN readers :
          ReadSamples(r) =>
            /\ SameChunkCount(StatsResult(r).Flat, StatsResult(r).Cumulatives)
            /\ (\A w \in DOMAIN writers : writers[w].pc = "idle") =>
                    /\ StatsResult(r).Flat = series.flatValues
                    /\ StatsResult(r).Cumulatives = series.cumulativeValues ]_vars

\* A stats() call has read the maps right after a roll, all keys with two
\* chunks, while the Append that rolled is still in flight.
C14_Witness ==
    \E r \in DOMAIN readers :
        /\ readers[r].pc = "readSamples"
        /\ writers[1].pc = "lockTree"
        /\ DOMAIN readers[r].cumulative # {}
        /\ \A k \in DOMAIN readers[r].cumulative : Len(readers[r].cumulative[k]) = 2
        /\ \A k \in DOMAIN readers[r].flat : Len(readers[r].flat[k]) = 2

\* C16: under fair scheduling every Append call and every stats() call
\* eventually returns, and Append never returns with the lock held.
C16_CallsReturn ==
    /\ (writers[1].pc # "idle") ~> (writers[1].pc = "idle")
    /\ \A r \in 1..NumReaders : (readers[r].pc # "idle") ~> (readers[r].pc = "idle")
    /\ [](writers[1].pc = "idle" => mu.writer = 0)

\* A stats() call holds the read lock and the Append waits for it.
C16_Witness ==
    /\ writers[1].waiting
    /\ mu.readers # {}

RECURSIVE SumSeq(_)
SumSeq(seq) == IF seq = << >> THEN 0 ELSE seq[1] + SumSeq(Tail(seq))

\* The series holds the accepted samples of history h and nothing else: no
\* sample was counted or written to a cursor beyond them.
HoldsAccepted(s, h) ==
    /\ s.numSamples = h.n % Uint16Modulus
    /\ s.maxTime = h.last
    /\ s.minTime = h.firstNonzero
    /\ \A column \in {TimestampCounts(s), s.durations, s.periods} : SumSeq(column) = h.n

\* The Append of the one writer returns r from within the roll: the lock is
\* released and no sample was accepted.
RollFailureReturn(r) ==
    /\ ret' = r
    /\ writers'[1].pc = "idle"
    /\ mu'.writer = 0
    /\ hist'.n = hist.n
    /\ HoldsAccepted(series', hist')

\* The fixed columns do not all have the same number of chunks.
Mismatched(s) ==
    ~(Len(s.timestamps) = Len(s.durations) /\ Len(s.durations) = Len(s.periods))

\* Every key of the two maps has n chunks.
KeysHaveChunks(s, n) ==
    /\ \A k \in DOMAIN s.flatValues : Len(s.flatValues[k]) = n
    /\ \A k \in DOMAIN s.cumulativeValues : Len(s.cumulativeValues[k]) = n

\* What every failing cursor construction of a roll does: the wrapped error
\* is returned with the lock released, no sample is accepted, the column
\* whose cursor failed got its chunk, the columns after it did not.
RollFailureSteps ==
    /\ RollTimestamps(1, TRUE) =>
            /\ RollFailureReturn(ErrTimestampChunk)
            /\ Len(series'.timestamps) = Len(series.timestamps) + 1
            /\ KeysHaveChunks(series', Len(series'.timestamps))
            /\ series'.durations = series.durations
            /\ series'.periods = series.periods
            /\ appenders' = appenders
    /\ RollDurations(1, TRUE) =>
            /\ RollFailureReturn(ErrDurationsChunk)
            /\ KeysHaveChunks(series', Len(series'.timestamps))
            /\ Len(series'.durations) = Len(series.durations) + 1
            /\ series'.periods = series.periods
            /\ appenders'[1].timestamps = Len(series'.timestamps)
            /\ appenders'[1].duration < Len(series'.durations)
    /\ RollPeriods(1, TRUE) =>
            /\ RollFailureReturn(ErrPeriodsChunk)
            /\ KeysHaveChunks(series', Len(series'.timestamps))
            /\ Len(series'.periods) = Len(series.periods) + 1
            /\ appenders'[1].timestamps = Len(series'.timestamps)
            /\ appenders'[1].duration = Len(series'.durations)
            /\ appenders'[1].periods < Len(series'.periods)

Detach(s) == [s EXCEPT !.samplesAppended = NoCounter]

\* C17: the attached counter counts the Appends that returned success, one
\* increment each, and no Append that returned an error; and on the series
\* without the metric every Append returns the same value and leaves the
\* same appender and the same series.
C17_MetricCountsAccepted ==
    /\ series.samplesAppended = Counter(hist.n)
    /\ \A p \in Profiles(series) :
        appenders[1].bound =>
            \A insertErr \in InsertFailures(p.tree), encErr \in RollFailures(series) :
                LET with == CallResult(1, p, insertErr, encErr)
                    without == AppendCall(Detach(series), appenders[1], p, insertErr, encErr)
                IN  /\ with.series.samplesAppended.value =
                            series.samplesAppended.value + (IF with.ret = OK THEN 1 ELSE 0)
                    /\ without.ret = with.ret
                    /\ without.app = with.app
                    /\ without.series = Detach(with.series)

\* The counter stands at a full chunk of accepted samples and the Append
\* that had to roll has failed.
C17_Witness ==
    /\ series.samplesAppended = Counter(samplesPerChunk)
    /\ ret \in RollErrors
    /\ hist.n = samplesPerChunk

\* Column new extends column old: no chunk is gone and no chunk holds fewer
\* samples than it did.
Extends(new, old) ==
    /\ Len(new) >= Len(old)
    /\ \A c \in 1..Len(old) : new[c] >= old[c]

\* C18: no step of Appender(), Append, stats() or Labels() removes a chunk
\* from a column, removes a key from flatValues or cumulativeValues, takes a
\* stored sample out of a chunk, decreases maxTime, or changes the label
\* set or the id.
C18_AppendOnly ==
    [][ /\ Extends(TimestampCounts(series'), TimestampCounts(series))
        /\ Extends(series'.durations, series.durations)
        /\ Extends(series'.periods, series.periods)
        /\ \A k \in DOMAIN series.flatValues :
                /\ k \in DOMAIN series'.flatValues
                /\ Extends(series'.flatValues[k], series.flatValues[k])
        /\ \A k \in DOMAIN series.cumulativeValues :
                /\ k \in DOMAIN series'.cumulativeValues
                /\ Extends(series'.cumulativeValues[k], series.cumulativeValues[k])
        /\ series'.maxTime >= series.maxTime
        /\ series'.lset = series.lset
        /\ series'.id = series.id
        /\ \A r \in DOMAIN readers : Labels(r) => LabelsResult = Lset ]_vars

\* After a roll and an accepted sample with values for a new key, an
\* Appender() call was made and a Labels() call is about to return.
C18_Witness ==
    /\ Len(series.timestamps) >= 2
    /\ "k2" \in DOMAIN series.flatValues
    /\ series.maxTime = hist.last
    /\ ConcAccepted >= 2
    /\ \E r \in DOMAIN readers : readers[r].pc = "labels"
    /\ ret \in {ErrEncoder, Panic}

\* C19: in every state, the slot the next accepted Append writes at,
\* numSamples mod 120, is the number of samples the tail chunk of the
\* timestamps column holds; or it is 0 when that chunk is full, so that the
\* Append rolls and writes at the first slot of the new chunk.
C19_SlotIsNextFree ==
    LET held == Last(series.timestamps).chunk
        slot == series.numSamples % samplesPerChunk
    IN  IF held >= samplesPerChunk THEN slot = 0 ELSE slot = held

\* C20: an accepted Append has written through cursors that refer to the
\* tail chunks of timestamps, durations and periods, whichever of the
\* appenders of the series it was made through.
C20_CursorsOnTailChunks ==
    [][ \A i \in 1..NumAlternating, p \in WrapProfiles(series) :
          (DoAppend(i, p, FALSE, "none") /\ ret' = OK) =>
            /\ appenders'[i].timestamps = Len(series'.timestamps)
            /\ appenders'[i].duration = Len(series'.durations)
            /\ appenders'[i].periods = Len(series'.periods) ]_vars

\* The places of Append between the check that found the tail chunk full and
\* the end of the roll it triggers.
RollPcs ==
    {"lockRoll", "rollCumulative", "rollFlat", "rollTimestamps", "rollDurations",
     "rollPeriods"}

\* C21: the full-tail check and the roll are one critical section: an Append
\* that found the tail chunk full holds the write lock until its roll is
\* done, so that no two overlapping Appends are both between the check and
\* the end of a roll, each to append a fresh chunk.
C21_CheckAndRollAtomic ==
    /\ \A w \in DOMAIN writers : writers[w].pc \in RollPcs => mu.writer = w
    /\ Cardinality({w \in DOMAIN writers : writers[w].pc \in RollPcs}) <= 1

\* The places of Append at which the bookkeeping of a sample is done: the
\* window of the tail timestamp chunk, minTime and maxTime, numSamples.
BookkeepingPcs == {"window", "times", "increment"}

\* C22: all the bookkeeping of an accepted sample is done holding the write
\* lock: the Append that is about to update the tail chunk's window, to
\* assign minTime and maxTime or to increment numSamples holds the lock.
C22_BookkeepingUnderLock ==
    \A w \in DOMAIN writers : writers[w].pc \in BookkeepingPcs => mu.writer = w

\* The places of Appender() at which it reads the fixed columns.
AppenderPcs == {"appTimestamps", "appDurations", "appPeriods"}

\* The places of a roll at which the fixed columns are being extended.
ExtendPcs == {"rollTimestamps", "rollDurations", "rollPeriods"}

\* C23: every access to the chunk sequences of timestamps, durations and
\* periods is made holding the series lock, those of Appender() included: a
\* goroutine that is about to read them in Appender() holds the lock, and no
\* Appender() call is in flight while a roll is extending them.
C23_ColumnsReadUnderLock ==
    /\ \A w \in DOMAIN writers : writers[w].pc \in AppenderPcs => mu.writer = w
    /\ \A w1, w2 \in DOMAIN writers :
            ~(writers[w1].pc \in AppenderPcs /\ writers[w2].pc \in ExtendPcs)

\* The places of Append at which its own Lock of lines 191, 198 or 246 is in
\* force: the full-tail check, the roll, the window update.
HeldPcs == {"check", "window"} \cup (RollPcs \ {"lockRoll"})

\* C24: Append holds the write lock during the full-tail check, the roll and
\* the window update and at no other place: not when it calls the tree
\* insertion (inside which seriesTree.Insert holds the lock it took itself),
\* not at the three cursor writes, not after the window update, and not when
\* it has returned, from a failed roll or otherwise.
C24_LockHeldBriefly ==
    \A w \in DOMAIN writers :
        /\ writers[w].pc \in HeldPcs => mu.writer = w
        /\ writers[w].pc = "insert" => mu.writer = w
        /\ writers[w].pc \notin HeldPcs \cup {"insert"} => mu.writer # w
        /\ writers[w].pc \in {"lockTree", "write", "idle"} => mu.writer # w
        /\ (writers[w].pc = "idle" /\ ret \in RollErrors) => mu.writer # w

\* After an Append returned from a failed roll, the next one stands at the
\* cursor writes while a stats() call holds the read lock.
C24_Witness ==
    /\ writers[1].pc = "write"
    /\ ret \in RollErrors
    /\ mu.writer = 0
    /\ mu.readers # {}

\* The errors of the three validations.
ValidationErrors == {ErrPeriodTypeMismatch, ErrSampleTypeMismatch, ErrOutOfOrderSample}

\* C25: on a series that has accepted a sample, Append returns the error of
\* the first failing validation in the order period type, sample type,
\* timestamp: ErrPeriodTypeMismatch for a sample whose periodType differs
\* (whatever its sampleType and timestamp), ErrSampleTypeMismatch for one
\* whose sampleType alone differs (whatever its timestamp),
\* ErrOutOfOrderSample for one with matching tags and a timestamp not above
\* maxTime; and no rejected sample has rolled the columns.
C25_ValidationOrder ==
    [][ \A i \in 1..NumAppenders, p \in Profiles(series) :
          \A insertErr \in InsertFailures(p.tree), encErr \in RollFailures(series) :
            (hist.n >= 1 /\ DoAppend(i, p, insertErr, encErr)) =>
                /\ p.periodType # series.periodType => ret' = ErrPeriodTypeMismatch
                /\ (p.periodType = series.periodType /\ p.sampleType # series.sampleType) =>
                        ret' = ErrSampleTypeMismatch
                /\ ( /\ p.periodType = series.periodType
                     /\ p.sampleType = series.sampleType
                     /\ p.timestamp <= series.maxTime ) => ret' = ErrOutOfOrderSample
                /\ ret' \in ValidationErrors =>
                        Len(series'.timestamps) = Len(series.timestamps) ]_vars

\* C26: an Append rejected by a validation is invisible to all that
\* follows: it leaves the series (numSamples, minTime, maxTime, type tags,
\* every column) and the appender as they were, so that after any sequence
\* of calls the state, and with it the outcome of every later call, is the
\* one the accepted samples alone lead to.
C26_RejectionsInvisible ==
    [][ \A i \in 1..NumAppenders, p \in Profiles(series) :
          \A insertErr \in InsertFailures(p.tree), encErr \in RollFailures(series) :
            (DoAppend(i, p, insertErr, encErr) /\ ret' \in ValidationErrors) =>
                /\ series' = series
                /\ appenders' = appenders
                /\ hist' = hist ]_vars

\* C27: in every reachable state, after a roll that failed part-way too, an
\* Appender() call returns an appender bound to the last chunk of each of
\* timestamps, durations and periods, or the encoder error and no appender;
\* it indexes no column outside its bounds.
C27_AppenderNeverPanics ==
    \A encErr \in EncoderFailures :
        LET r == Appender(series, encErr) IN
        /\ r.ret \in {OK, ErrEncoder}
        /\ r.ret = OK =>
                /\ r.app.bound
                /\ r.app.timestamps = Len(series.timestamps)
                /\ r.app.duration = Len(series.durations)
                /\ r.app.periods = Len(series.periods)
        /\ r.ret = ErrEncoder => r.app = NoAppender

\* C28: the window of every timestamp chunk that holds a sample lies within
\* the accepted timestamps (none is below the first or above maxTime, the
\* greatest one), the windows of consecutive such chunks are disjoint and
\* increasing, and after every successful Append the tail chunk's maxTime is
\* the series' maxTime; after any calls, those that failed after rolling
\* included.
C28_ChunkWindows ==
    /\ [](LET ts == series.timestamps IN
          /\ \A c \in 1..Len(ts) :
                ts[c].chunk > 0 =>
                    /\ hist.first.timestamp <= ts[c].minTime
                    /\ ts[c].minTime <= ts[c].maxTime
                    /\ ts[c].maxTime <= series.maxTime
          /\ \A c \in 1..(Len(ts) - 1) :
                (ts[c].chunk > 0 /\ ts[c + 1].chunk > 0) =>
                    ts[c].maxTime < ts[c + 1].minTime)
    /\ [][ \A p \in WindowProfiles(series) :
             \A insertErr \in InsertFailures(p.tree), encErr \in RollFailures(series) :
                (DoAppend(1, p, insertErr, encErr) /\ ret' = OK) =>
                    Last(series'.timestamps).maxTime = series'.maxTime ]_vars

\* The tail chunks of the three fixed columns of s hold n samples each.
TailsHold(s, n) ==
    /\ Last(s.timestamps).chunk = n
    /\ Last(s.durations) = n
    /\ Last(s.periods) = n

C30_ResultOfLatestRequest ==
    (hook.requests # << >> /\ hook.outstanding = {}) =>
        /\ hook.result.kind \in {"response", "error"}
        /\ hook.result.request = Len(hook.requests)

\* C31: once the hook's effect has run, loading is true exactly while the
\* labels request issued last is outstanding: it is false once that request
\* has settled, it is true while that request is outstanding even if an
\* older one has settled since, and it is false when the component was
\* rendered with an empty profile type only, so that no request was issued.
C31_LoadingWhileOutstanding ==
    hook.mounted =>
        /\ hook.requests = << >> => ~hook.loading
        /\ hook.requests # << >> =>
                (hook.loading <=> Len(hook.requests) \in hook.outstanding)

\* The values selected by a filter: none, the comma-separated values of a
\* string, the elements of an array.
Selected(currentSearchString) ==
    CASE currentSearchString.kind = "undefined" -> {}
      [] currentSearchString.kind = "string" ->
            IF currentSearchString.str = << >> THEN {}
            ELSE { Split(currentSearchString.str)[i] :
                        i \in DOMAIN Split(currentSearchString.str) }
      [] currentSearchString.kind = "array" ->
            { currentSearchString.arr[i] : i \in DOMAIN currentSearchString.arr }

\* C32: a click on a legend entry that is filterable and not highlighted
\* sets the filter to an array holding every value selected before and the
\* clicked feature, whether the filter was undefined, a string or an array;
\* a click on the EVERYTHING_ELSE entry or on a highlighted one leaves the
\* filter as it was.
C32_ClickAddsFeature ==
    [][ \A feature \in Features :
          Click(feature) =>
            LET before == legend.currentSearchString
                after == legend'.currentSearchString
            IN  IF filteringAllowed(feature) /\ ~isHighlighted(before, feature)
                THEN /\ after.kind = "array"
                     /\ ArrayIncludes(after.arr, feature)
                     /\ \A v \in Selected(before) : ArrayIncludes(after.arr, v)
                ELSE after = before ]_vars

====
